---------------------------- MODULE Spec2Model ----------------------------
(***************************************************************************)
(* Model of the generate -> build -> run -> diagnose -> repair pipeline of *)
(* backend/app/api/orchestrator.py, the two-attempt code-request protocol  *)
(* and the response normalizer of backend/app/api/ai.py, and the start and *)
(* stop operations of backend/app/api/deployments.py.                      *)
(*                                                                         *)
(* Texts (AI replies, prompts, log lines, message contents) are sequences  *)
(* of string tokens; f-string interpolation is sequence concatenation.     *)
(* A file mapping is a function from file names to contents; a parsed JSON *)
(* object is a function from keys to tagged JSON values.                   *)
(***************************************************************************)
EXTENDS Integers, Sequences, FiniteSets, TLC

(***************************************************************************)
(* Bounds of the model.                                                    *)
(***************************************************************************)
\* the largest max_iterations a start request carries
MaxIterBound == 2

\* the most calls of append_log a task makes while sockets come and go
MaxLines == 3

(***************************************************************************)
(* JSON values: [k |-> kind, s |-> string payload, o |-> object payload].  *)
(***************************************************************************)
JStr(x) == [k |-> "str", s |-> x, o |-> <<>>]

JNum == [k |-> "num", s |-> "3", o |-> <<>>]

JNull == [k |-> "null", s |-> "", o |-> <<>>]

JList == [k |-> "list", s |-> "", o |-> <<>>]

JObj(f) == [k |-> "obj", s |-> "", o |-> f]

\* the empty dict {} (of either a parsed object or a file mapping)
EmptyDict == <<>>

(***************************************************************************)
(* The JSON documents that occur as the body of a reply: json.loads is the *)
(* table from the document's text to its value.                            *)
(***************************************************************************)
DocA == JObj("main.py" :> JStr("code"))

DocMixed == JObj(("main.py" :> JStr("code")) @@ ("count" :> JNum))

DocB == JObj("app.py" :> JStr("x"))

DocTool ==
    JObj(("name" :> JStr("create_file")) @@
         ("arguments" :> JObj(("filename" :> JStr("app.py")) @@ ("content" :> JStr("x")))))

DocToolNull == JObj(("name" :> JStr("create_file")) @@ ("arguments" :> JNull))

DocNums == JObj("count" :> JNum)

\* a tool call whose name is a number, with further keys beside the pair
DocToolExtra ==
    JObj(("name" :> JNum) @@ ("id" :> JStr("1")) @@
         ("arguments" :> JObj(("filename" :> JStr("main.py")) @@ ("content" :> JStr("code"))
                              @@ ("mode" :> JStr("w")))))

\* a tool call whose content is no string
DocToolNum ==
    JObj(("name" :> JStr("create_file")) @@
         ("arguments" :> JObj(("filename" :> JStr("app.py")) @@ ("content" :> JNum))))

\* a tool call whose arguments are a string that holds both words
DocToolWords ==
    JObj(("name" :> JStr("create_file")) @@ ("arguments" :> JStr("filename content")))

\* files that happen to be called name and arguments
DocFlatNamed == JObj(("name" :> JStr("x")) @@ ("arguments" :> JStr("y")))

DocNamed == JObj("name" :> JStr("x"))

\* json.dumps(code_dict, indent=2) of the mappings: one entry per line
Dumped == {"{\n  main.py: code\n}", "{\n  app.py: x\n}", "{\n  name: x\n}", "{}"}

JsonDocs ==
    ("{main.py:code}" :> DocA) @@
    ("{main.py:code,count:3}" :> DocMixed) @@
    ("{app.py:x}" :> DocB) @@
    ("{name:create_file,arguments:{filename:app.py,content:x}}" :> DocTool) @@
    ("{name:create_file,arguments:null}" :> DocToolNull) @@
    ("{count:3}" :> DocNums) @@
    ("[1,2]" :> JList) @@
    ("{}" :> JObj(EmptyDict)) @@
    ("{name:3,id:1,arguments:{filename:main.py,content:code,mode:w}}" :> DocToolExtra) @@
    ("{name:create_file,arguments:{filename:app.py,content:3}}" :> DocToolNum) @@
    ("{name:create_file,arguments:filename content}" :> DocToolWords) @@
    ("{name:x,arguments:y}" :> DocFlatNamed) @@
    ("{name:x}" :> DocNamed) @@
    ("{\n  main.py: code\n}" :> DocA) @@
    ("{\n  app.py: x\n}" :> DocB) @@
    ("{\n  name: x\n}" :> DocNamed)

\* tokens that are white space only
WhiteSpace == {" ", "\n"}

\* the fence tokens: "FENCE" is three backticks, "FENCE json" three backticks
\* followed by letters; a fenced block opens with either
FenceOpen == {"FENCE", "FENCE json"}

(***************************************************************************)
(* str.strip(): leading and trailing white space removed.                  *)
(***************************************************************************)
RECURSIVE LStrip(_)
LStrip(t) == IF Len(t) > 0 /\ Head(t) \in WhiteSpace THEN LStrip(Tail(t)) ELSE t

RECURSIVE RStrip(_)
RStrip(t) ==
    IF Len(t) > 0 /\ t[Len(t)] \in WhiteSpace
    THEN RStrip(SubSeq(t, 1, Len(t) - 1))
    ELSE t

Strip(t) == RStrip(LStrip(t))

(***************************************************************************)
(* _strip_code_fences: one leading fence (with its language) and the       *)
(* newline after it, then one trailing fence, then strip.                  *)
(***************************************************************************)
StripLeadingFence(t) ==
    IF Len(t) > 0 /\ Head(t) \in FenceOpen
    THEN (IF Len(t) > 1 /\ t[2] = "\n" THEN Tail(Tail(t)) ELSE Tail(t))
    ELSE t

StripTrailingFence(t) ==
    LET u == Strip(t)
    IN  IF Len(u) > 0 /\ u[Len(u)] = "FENCE" THEN SubSeq(u, 1, Len(u) - 1) ELSE u

_strip_code_fences(t) == Strip(StripTrailingFence(StripLeadingFence(t)))

(***************************************************************************)
(* _parse_json_safely: the parsed top-level object, {} when the text is no *)
(* JSON document or its top level is no object.                            *)
(***************************************************************************)
_parse_json_safely(text) ==
    LET t == _strip_code_fences(Strip(text))
    IN  IF Len(t) = 1 /\ t[1] \in DOMAIN JsonDocs
        THEN (IF JsonDocs[t[1]].k = "obj" THEN JsonDocs[t[1]].o ELSE EmptyDict)
        ELSE EmptyDict

(***************************************************************************)
(* Python's `x in args` and args[x] on the JSON value args.                *)
(* A result of a function that may raise is [raised, val].                 *)
(***************************************************************************)
Returned(v) == [raised |-> FALSE, val |-> v]

Raised == [raised |-> TRUE, val |-> EmptyDict]

\* strings that contain both "filename" and "content" as substrings
StringsWithBothWords == {"filename content"}

\* `"filename" in args and "content" in args`: key membership for an object,
\* substring test for a string, element membership for a list, TypeError for
\* null and numbers
ArgsHaveBoth(args) ==
    CASE args.k = "obj" -> Returned({"filename", "content"} \subseteq DOMAIN args.o)
      [] args.k = "str" -> Returned(args.s \in StringsWithBothWords)
      [] args.k = "list" -> Returned(FALSE)
      [] OTHER -> Raised

(***************************************************************************)
(* _normalize_code_snippet: the file mapping of a parsed object.           *)
(***************************************************************************)
\* every entry is kept, a value that is no string as the empty string
StringEntries_KeepsAll(parsed) ==
    [key \in DOMAIN parsed |-> IF parsed[key].k = "str" THEN parsed[key].s ELSE ""]

StringEntries(parsed) ==
    [key \in {q \in DOMAIN parsed : parsed[q].k = "str"} |-> parsed[key].s]

\* the content names the file
ToolCallMapping_Swapped(args) ==
    Returned(args.o["content"].s :> args.o["filename"].s)

ToolCallMapping(args) ==
    IF args.k # "obj"
    THEN Raised   \* args["filename"] on a string: TypeError
    ELSE IF args.o["filename"].k = "str" /\ args.o["content"].k = "str"
         THEN Returned(args.o["filename"].s :> args.o["content"].s)
         ELSE Returned(EmptyDict)

_normalize_code_snippet(parsed) ==
    IF {"name", "arguments"} \subseteq DOMAIN parsed
    THEN LET has == ArgsHaveBoth(parsed["arguments"])
         IN  IF has.raised THEN Raised
             ELSE IF has.val THEN ToolCallMapping(parsed["arguments"])
             ELSE Returned(EmptyDict)
    ELSE Returned(StringEntries(parsed))

\* _normalize_code_snippet(_parse_json_safely(raw)), as both call sites compose them
Normalize(raw) == _normalize_code_snippet(_parse_json_safely(raw))

\* `if code_dict:` on a dict
Truthy(d) == DOMAIN d # {}


\* json.dumps(code_dict, indent=2): the text of the object whose entries are
\* the mapping's entries
Serialize_AsList(d) == <<"[1,2]">>

Serialize(d) ==
    <<CHOOSE n \in Dumped : JsonDocs[n] = JObj([key \in DOMAIN d |-> JStr(d[key])])>>

(***************************************************************************)
(* The state.                                                              *)
(***************************************************************************)
VARIABLES
    deployment,             \* the deployment's document in db["deployments"], NoDoc when none
    conversation,           \* the messages of the conversation document that exists
    workspace,              \* build_dir on disk: None, or Some(the files in it)
    pc,                     \* where run_deployment_pipeline (the background task) stands
    iteration,              \* local of run_deployment_pipeline
    max_iterations,         \* local of run_deployment_pipeline
    app_type,               \* local of run_deployment_pipeline
    last_code_snippets,     \* local of run_deployment_pipeline: None or Some(mapping)
    last_logs,              \* local of run_deployment_pipeline
    conversation_messages,  \* local of run_deployment_pipeline
    code_dict,              \* the mapping call_ai_for_code_with_raw returned to its caller
    raw_attempts,           \* the transcripts call_ai_for_code_with_raw returned
    raw_logs,               \* parameter of fix_code_with_logs
    call_site,              \* the caller of call_ai_for_code_with_raw: "code" or "fix"
    call_args,              \* its arguments: [conversation_messages, system_messages]
    final_messages,         \* local of call_ai_for_code_with_raw
    raw1,                   \* local of call_ai_for_code_with_raw
    provider_requests,      \* history: the message lists this call has sent to the provider
    provider_replies,       \* history: the replies the provider gave to this call
    raised,                 \* the exception that left run_deployment_pipeline, "none" if none
    stop_response,          \* status code of the last answer of stop_running_service
    builds,                 \* history: docker_build invocations of the run
    failed_builds,          \* history: those that failed
    runs,                   \* history: run checks of the run
    failed_runs,            \* history: those that failed
    accepted,               \* history: the mapping each iteration accepted (line 106)
    writes,                 \* history: write_code_to_directory calls of the run
    fix_calls,              \* history: fix_code_with_logs calls of the run
    fixes_ok,               \* history: those that returned True
    ever_success,           \* history: status success was written
    image,                  \* runtime: whose build the tag ephemeral-test-image names
    container,              \* runtime: id of the container named ephemeral-test-container
    rm_pending,             \* runtime: a `docker rm -f` of it was spawned and not awaited
    check,                  \* history: what the last run check of this run did
    other_pc,               \* where the pipeline run of another deployment stands
    other_check,            \* history: what the run check of that other run did
    stored,                 \* the logs list of the deployment that append_log writes to
    connected_clients,      \* ws.py: connected_clients.get(deployment_id): None or Some(set)
    handler,                \* where deployment_logs_ws stands, for each socket
    received,               \* the lines send_text delivered to each socket, in order
    registered_throughout,  \* history: the sockets registered since before the first line
    log_pc,                 \* where the task that calls append_log stands
    message,                \* the line append_log was called with (numbered by its call)
    sending_to,             \* broadcast_log: the socket whose send_text is awaited
    to_send,                \* broadcast_log: the sockets its for loop has not yet reached
    iter_used,              \* broadcast_log: the size of the set when the loop began
    dead_sockets,           \* local of broadcast_log
    conversation_stored,    \* whether find_one on db["conversations"] still finds the document
    raw_text,               \* a text handed to the normalizer
    normalized,             \* what normalizing raw_text gave
    renormalized,           \* what normalizing the serialization of that mapping gave
    norm_pc                 \* where the normalization of raw_text stands

vars ==
    <<deployment, conversation, workspace, pc, iteration, max_iterations, app_type,
      last_code_snippets, last_logs, conversation_messages, code_dict, raw_attempts,
      raw_logs, call_site, call_args, final_messages, raw1, provider_requests,
      provider_replies, raised, stop_response, builds, failed_builds, runs, failed_runs,
      accepted, writes, fix_calls, fixes_ok, ever_success, image, container, rm_pending,
      check, other_pc, other_check, stored, connected_clients, handler, received,
      registered_throughout, log_pc, message, sending_to, to_send, iter_used, dead_sockets,
      conversation_stored, raw_text, normalized, renormalized, norm_pc>>

locals ==
    <<iteration, max_iterations, app_type, last_code_snippets, last_logs,
      conversation_messages>>

call_vars == <<code_dict, raw_attempts, call_site, call_args, final_messages, raw1,
               provider_requests, provider_replies>>

history == <<builds, failed_builds, runs, failed_runs, accepted, writes, fix_calls,
             fixes_ok, ever_success>>

\* the web sockets that may subscribe to the deployment's log
Sockets == {"ws1", "ws2", "ws3"}

\* the container runtime, as this run's docker commands see and change it
runtime == <<image, container, rm_pending, check>>

\* the pipeline run of another deployment
other_run == <<other_pc, other_check>>

\* the log fan-out of ws.py
fanout == <<stored, connected_clients, handler, received, registered_throughout, log_pc,
            message, sending_to, to_send, iter_used, dead_sockets>>

\* the normalization of one text, apart from any pipeline run
normalizer == <<raw_text, normalized, renormalized, norm_pc>>

\* the deployment, its conversation and its pipeline run
run_vars ==
    <<deployment, conversation, workspace, pc, locals, call_vars, raw_logs, raised,
      stop_response, history, runtime, other_run, conversation_stored>>

\* Python's None and a present value, for locals that hold either
None == {}

Some(v) == {v}

\* find_one found no document
NoDoc == <<>>

\* the conversation_id of a start request: the id of the conversation that
\* exists, a well-formed id of no document, or a string that is no ObjectId
ConversationIds == {"conv", "absent", "not-an-objectid"}

\* what a client may have posted to create_conversation
InitialMessages == <<[role |-> "user", content |-> <<"make me an app">>]>>

(***************************************************************************)
(* The collaborators' answers.                                             *)
(***************************************************************************)
\* the provider call raised (HTTPException of _*_generate_multiturn)
ProviderError == <<"HTTPException">>

\* replies of the provider to a code or repair request
CodeReplies ==
    { <<"Sure! Here is the code">>,
      <<"{count:3}">>,
      <<"FENCE json", "\n", "{main.py:code}", "\n", "FENCE">>,
      <<"{name:create_file,arguments:{filename:app.py,content:x}}">>,
      <<"{name:create_file,arguments:null}">> }

\* replies of the provider to a plan request
PlanReplies == { <<" ">>, <<"- pin Flask", "\n">> }

\* find_one finds the conversation whether or not it is stored
FindConversation_AlwaysFinds(cid, present, conv) == Returned(Some(conv))

\* find_one on db["conversations"] with ObjectId(conversation_id)
FindConversation(cid, present, conv) ==
    CASE cid = "conv" -> Returned(IF present THEN Some(conv) ELSE None)
      [] cid = "absent" -> Returned(None)
      [] OTHER -> Raised    \* bson.errors.InvalidId

(***************************************************************************)
(* orchestrator.py: append_log and update_deployment_field.                *)
(***************************************************************************)
\* the line is not stored
append_log_Drops(doc, new_log) == doc

append_log(doc, new_log) ==
    IF doc = NoDoc THEN doc ELSE [doc EXCEPT !.logs = Append(@, new_log)]

RECURSIVE append_logs(_, _)
append_logs(doc, lines) ==
    IF lines = <<>> THEN doc ELSE append_logs(append_log(doc, Head(lines)), Tail(lines))

\* the write of status success records a container as well
update_status_WithContainer(doc, s) ==
    IF doc = NoDoc THEN doc
    ELSE [doc EXCEPT !.status = s,
                     !.container_id = IF s = "success" THEN "c1" ELSE @]

update_status(doc, s) == IF doc = NoDoc THEN doc ELSE [doc EXCEPT !.status = s]

update_iteration(doc, n) == IF doc = NoDoc THEN doc ELSE [doc EXCEPT !.iteration = n]

\* deployment.get(key, default)
DocGet(doc, key, default) == IF key \in DOMAIN doc THEN doc[key] ELSE default

\* the new message takes the place of the stored ones
add_message_Replaces(present, conv, m) == <<m>>

\* conversations.py: add_message_to_conversation_internal; update_one with
\* $push changes nothing when no document has the id
add_message(present, conv, m) == IF present THEN Append(conv, m) ELSE conv

(***************************************************************************)
(* deployments.py: start_deployment.                                       *)
(***************************************************************************)
\* the new record carries the identifier of some container
\* the inserted record declares a server
deployment_doc_Server(cid, max, trouble) ==
    [ conversation_id |-> cid,
      status |-> "pending",
      iteration |-> 0,
      max_iterations |-> max,
      logs |-> <<>>,
      trouble_mode |-> trouble,
      container_id |-> "None",
      app_type |-> "server" ]

deployment_doc_WithContainer(cid, max, trouble) ==
    [ conversation_id |-> cid,
      status |-> "pending",
      iteration |-> 0,
      max_iterations |-> max,
      logs |-> <<>>,
      trouble_mode |-> trouble,
      container_id |-> "c1" ]

deployment_doc(cid, max, trouble) ==
    [ conversation_id |-> cid,
      status |-> "pending",
      iteration |-> 0,
      max_iterations |-> max,
      logs |-> <<>>,
      trouble_mode |-> trouble,
      container_id |-> "None" ]

\* max_iterations of DeploymentStartRequest is an int that nothing validates
MaxIterationsValues == {-1} \cup (0..MaxIterBound)

start_deployment ==
    /\ pc = "not_started"
    /\ \E cid \in ConversationIds, max \in MaxIterationsValues, trouble \in BOOLEAN :
          deployment' = deployment_doc(cid, max, trouble)
    /\ pc' = "scheduled"
    /\ UNCHANGED <<conversation, workspace, locals, call_vars, raw_logs, raised,
                   stop_response, history>>
    /\ UNCHANGED <<runtime, other_run, fanout, conversation_stored, normalizer>>

(***************************************************************************)
(* deployments.py: stop_running_service.                                   *)
(***************************************************************************)
\* the stop is accepted whatever the record says of its container
StopAccepted_StatusOnly(dep) == dep.status = "success"

\* line 104: `not dep.get("container_id")` holds of None and of the empty string
StopAccepted(dep) == dep.status = "success" /\ dep.container_id \notin {"None", ""}

\* line 115: `docker rm -f container_id`, run to its end
docker_rm(held, container_id) == IF held = container_id THEN "" ELSE held

stop_running_service ==
    /\ IF deployment = NoDoc
       THEN stop_response' = "404" /\ UNCHANGED <<deployment, container, rm_pending>>
       ELSE IF ~StopAccepted(deployment)
            THEN stop_response' = "400" /\ UNCHANGED <<deployment, container, rm_pending>>
            ELSE /\ stop_response' = "200"
                 /\ container' = docker_rm(container, deployment.container_id)
                 /\ rm_pending' = (rm_pending /\ container' # "")
                 /\ deployment' = [deployment EXCEPT !.status = "stopped",
                                                     !.container_id = "None"]
    /\ UNCHANGED <<conversation, workspace, pc, locals, call_vars, raw_logs, raised, history>>
    /\ UNCHANGED <<image, check, other_run, fanout, conversation_stored, normalizer>>


(***************************************************************************)
(* orchestrator.py: run_deployment_pipeline, one action per stretch of the *)
(* coroutine between two calls of a collaborator.                          *)
(***************************************************************************)
\* the first characters of the previous iteration's logs that the plan prompt quotes
PlanLogExcerpt == 3000

Take(t, n) == SubSeq(t, 1, IF Len(t) < n THEN Len(t) ELSE n)

plan_prompt(logs) ==
    <<"You are the planning assistant. Here are logs from the previous iteration:">>
    \o Take(logs, PlanLogExcerpt)
    \o <<"Provide a bullet-list plan.">>

_build_system_msg_for_app_type(t) ==
    [ role |-> "system",
      content |-> IF t = "script"
                  THEN <<"You must produce a Python script that exits code 0 upon completion.">>
                  ELSE <<"You must produce a Python-based web server that listens on 0.0.0.0:5000.">> ]

\* an exception leaves the coroutine: the background task ends where it stands
Propagate(exc) ==
    /\ pc' = "done"
    /\ raised' = exc

\* lines 33-48: load the deployment, mark it in_progress, create build_dir
PipelineBegin ==
    /\ pc = "scheduled"
    /\ IF deployment = NoDoc
       THEN /\ pc' = "done"
            /\ UNCHANGED <<deployment, workspace, locals>>
       ELSE /\ iteration' = DocGet(deployment, "iteration", 0)
            /\ max_iterations' = DocGet(deployment, "max_iterations", 5)
            /\ app_type' = DocGet(deployment, "app_type", "script")
            /\ deployment' = update_status(deployment, "in_progress")
            /\ workspace' = Some(EmptyDict)
            /\ last_code_snippets' = None
            /\ last_logs' = <<>>
            /\ pc' = "loop"
            /\ UNCHANGED conversation_messages
    /\ UNCHANGED <<conversation, call_vars, raw_logs, raised, stop_response, history>>
    /\ UNCHANGED <<runtime, other_run, fanout, conversation_stored, normalizer>>

\* the loop runs once more than the ceiling allows
LoopCondition_OffByOne(i, max) == i <= max

\* line 50: the loop condition
LoopCondition(i, max) == i < max

\* lines 50-64: a new iteration starts and loads the conversation
IterationStart ==
    /\ pc = "loop"
    /\ LoopCondition(iteration, max_iterations)
    /\ iteration' = iteration + 1
    /\ LET started == update_iteration(
                        append_log(deployment,
                                   <<"Iteration #", ToString(iteration'), " started.">>),
                        iteration')
           found == FindConversation(deployment.conversation_id, conversation_stored, conversation)
       IN  IF found.raised
           THEN /\ deployment' = started
                /\ Propagate("InvalidId")
                /\ UNCHANGED conversation_messages
           ELSE IF found.val = None
           THEN /\ deployment' = update_status(
                                   append_log(started,
                                     <<"Conversation doc not found. Aborting orchestrator.">>),
                                   "error")
                /\ pc' = "cleanup"
                /\ UNCHANGED <<conversation_messages, raised>>
           ELSE /\ deployment' = started
                /\ conversation_messages' = conversation
                /\ pc' = "plan"
                /\ UNCHANGED raised
    /\ UNCHANGED <<conversation, workspace, max_iterations, app_type, last_code_snippets,
                   last_logs, call_vars, raw_logs, stop_response, history>>
    /\ UNCHANGED <<runtime, other_run, fanout, conversation_stored, normalizer>>

\* line 50: the loop ends because the ceiling is reached
LoopExit ==
    /\ pc = "loop"
    /\ ~LoopCondition(iteration, max_iterations)
    /\ pc' = "cleanup"
    /\ UNCHANGED <<deployment, conversation, workspace, locals, call_vars, raw_logs, raised,
                   stop_response, history>>
    /\ UNCHANGED <<runtime, other_run, fanout, conversation_stored, normalizer>>

\* lines 70-93: the plan step, then the call of call_ai_for_code_with_raw
PlanStep ==
    /\ pc = "plan"
    /\ \E reply \in PlanReplies \cup {ProviderError} :
          IF reply = ProviderError
          THEN /\ Propagate("HTTPException")
               /\ UNCHANGED <<deployment, conversation, call_site, call_args>>
          ELSE LET plan_text == Strip(reply)
               IN  /\ IF plan_text # <<>>
                      THEN /\ deployment' =
                                 append_log(deployment,
                                   <<"AI Plan (Iteration ", ToString(iteration), "):">>
                                   \o plan_text)
                           /\ conversation' =
                                 add_message(conversation_stored, conversation,
                                             [role |-> "assistant", content |-> plan_text])
                      ELSE UNCHANGED <<deployment, conversation>>
                   /\ call_site' = "code"
                   /\ call_args' =
                         [ conversation_messages |-> conversation_messages,
                           system_messages |-> <<_build_system_msg_for_app_type(app_type)>> ]
                   /\ pc' = "gen1"
                   /\ UNCHANGED raised
    /\ UNCHANGED <<workspace, locals, code_dict, raw_attempts, final_messages, raw1,
                   provider_requests, provider_replies, raw_logs, stop_response, history>>
    /\ UNCHANGED <<runtime, other_run, fanout, conversation_stored, normalizer>>


(***************************************************************************)
(* ai.py: call_ai_for_code_with_raw, called by the pipeline (call_site     *)
(* "code") and by fix_code_with_logs (call_site "fix").                    *)
(***************************************************************************)
fix_prompt(raw) ==
    <<"You returned invalid JSON for file mappings. Original:">>
    \o raw
    \o <<"Please strictly return valid JSON. No code fences or other text.">>

\* the messages of attempt #2: those of attempt #1 and the corrective user message
Attempt2Messages(msgs, raw) ==
    msgs \o <<[role |-> "user", content |-> fix_prompt(raw)]>>

\* where the caller goes on when the call returns
ReturnTo(site) == IF site = "code" THEN "code_ret" ELSE "fix_ret"

\* lines 204-205: attempt #1 is returned when its mapping is non-empty
FirstAttemptAccepted(code_dict_1) == Truthy(code_dict_1)

\* line 205: the transcripts returned with attempt #1
Transcripts1(r1) == <<r1>>

\* the first raw reply is discarded once the follow-up was made
Transcripts2_DropsFirst(r1, r2) == <<r2>>

\* lines 229 and 231: the transcripts returned after attempt #2
Transcripts2(r1, r2) == <<r1, r2>>

\* lines 192-205: attempt #1
Attempt1 ==
    /\ pc = "gen1"
    /\ LET msgs == call_args.conversation_messages \o call_args.system_messages
       IN  /\ final_messages' = msgs
           /\ provider_requests' = <<msgs>>
           /\ \E reply \in CodeReplies \cup {ProviderError} :
                 IF reply = ProviderError
                 THEN /\ Propagate("HTTPException")
                      /\ provider_replies' = <<>>
                      /\ UNCHANGED <<raw1, code_dict, raw_attempts>>
                 ELSE LET code_dict_1 == Normalize(reply)
                      IN  /\ raw1' = reply
                          /\ provider_replies' = <<reply>>
                          /\ IF code_dict_1.raised
                             THEN /\ Propagate("TypeError")
                                  /\ UNCHANGED <<code_dict, raw_attempts>>
                             ELSE IF FirstAttemptAccepted(code_dict_1.val)
                             THEN /\ code_dict' = code_dict_1.val
                                  /\ raw_attempts' = Transcripts1(reply)
                                  /\ pc' = ReturnTo(call_site)
                                  /\ UNCHANGED raised
                             ELSE /\ pc' = "gen2"
                                  /\ UNCHANGED <<code_dict, raw_attempts, raised>>
    /\ UNCHANGED <<deployment, conversation, workspace, locals, call_site, call_args,
                   raw_logs, stop_response, history>>
    /\ UNCHANGED <<runtime, other_run, fanout, conversation_stored, normalizer>>

\* lines 207-231: attempt #2
Attempt2 ==
    /\ pc = "gen2"
    /\ provider_requests' = Append(provider_requests, Attempt2Messages(final_messages, raw1))
    /\ \E reply \in CodeReplies \cup {ProviderError} :
          IF reply = ProviderError
          THEN /\ Propagate("HTTPException")
               /\ UNCHANGED <<code_dict, raw_attempts, provider_replies>>
          ELSE LET code_dict_2 == Normalize(reply)
               IN  /\ provider_replies' = Append(provider_replies, reply)
                   /\ IF code_dict_2.raised
                      THEN /\ Propagate("TypeError")
                           /\ UNCHANGED <<code_dict, raw_attempts>>
                      ELSE /\ code_dict' = IF Truthy(code_dict_2.val)
                                           THEN code_dict_2.val
                                           ELSE EmptyDict
                           /\ raw_attempts' = Transcripts2(raw1, reply)
                           /\ pc' = ReturnTo(call_site)
                           /\ UNCHANGED raised
    /\ UNCHANGED <<deployment, conversation, workspace, locals, call_site, call_args,
                   final_messages, raw1, raw_logs, stop_response, history>>
    /\ UNCHANGED <<runtime, other_run, fanout, conversation_stored, normalizer>>

\* the locals of a finished call are gone
CallOver ==
    /\ call_site' = "none"
    /\ call_args' = [conversation_messages |-> <<>>, system_messages |-> <<>>]
    /\ final_messages' = <<>>
    /\ raw1' = <<>>
    /\ provider_requests' = <<>>
    /\ provider_replies' = <<>>
    /\ code_dict' = EmptyDict
    /\ raw_attempts' = <<>>

(***************************************************************************)
(* run_deployment_pipeline, lines 94-124: what the pipeline does with the  *)
(* result of its code request.                                             *)
(***************************************************************************)
\* only the first raw transcript is logged
RawAttemptLines_FirstOnly(label, attempts) ==
    [i \in 1..(IF Len(attempts) > 0 THEN 1 ELSE 0) |-> <<label, ToString(i), ":">> \o attempts[i]]

\* lines 95-96 and 278-279: one log line per raw transcript, numbered from 1
RawAttemptLines(label, attempts) ==
    [i \in 1..Len(attempts) |-> <<label, ToString(i), ":">> \o attempts[i]]

\* the loop guard never fires
SameAsLast_Never(new, last) == FALSE

\* line 102: the loop guard
SameAsLast(new, last) == last = Some(new)

\* build_dir is wiped and no file is written
write_code_to_directory_Nothing(code_snippets) == Some(EmptyDict)

\* lines 339-347: write_code_to_directory wipes build_dir and writes the files
write_code_to_directory(code_snippets) == Some(code_snippets)

CodeReceived ==
    /\ pc = "code_ret"
    /\ IF ~Truthy(code_dict)
       THEN /\ deployment' =
                 append_log(append_logs(deployment,
                                        RawAttemptLines("Raw AI attempt #", raw_attempts)),
                            <<"No code returned from AI. Aborting.">>)
            /\ pc' = "nocode"
            /\ UNCHANGED <<conversation, workspace, last_code_snippets, writes, accepted,
                           call_vars>>
       ELSE IF SameAsLast(code_dict, last_code_snippets)
       THEN /\ deployment' =
                 update_status(
                   append_log(deployment,
                              <<"AI returned the same code as last iteration. Aborting.">>),
                   "error")
            /\ pc' = "cleanup"
            /\ CallOver
            /\ UNCHANGED <<conversation, workspace, last_code_snippets, writes, accepted>>
       ELSE /\ last_code_snippets' = Some(code_dict)
            /\ accepted' = accepted @@ (iteration :> code_dict)
            /\ CallOver
            /\ conversation' =
                 add_message(conversation_stored, conversation,
                             [role |-> "assistant", content |-> Serialize(code_dict)])
            /\ writes' = writes + 1
            /\ \E written \in BOOLEAN :
                  IF written
                  THEN /\ workspace' = write_code_to_directory(code_dict)
                       /\ deployment' = append_log(deployment, <<"Code written to build_dir">>)
                       /\ pc' = "build"
                  ELSE /\ workspace' = Some(EmptyDict)
                       /\ deployment' =
                            update_status(append_log(deployment, <<"Error writing code: ", "OSError">>),
                                          "error")
                       /\ pc' = "cleanup"
    /\ UNCHANGED <<iteration, max_iterations, app_type, last_logs, conversation_messages,
                   raw_logs, raised, stop_response, builds, failed_builds, runs, failed_runs,
                   fix_calls, fixes_ok, ever_success>>
    /\ UNCHANGED <<runtime, other_run, fanout, conversation_stored, normalizer>>

\* lines 98-99: no code, so the run fails
NoCodeAbort ==
    /\ pc = "nocode"
    /\ deployment' = update_status(deployment, "error")
    /\ pc' = "cleanup"
    /\ CallOver
    /\ UNCHANGED <<conversation, workspace, locals, raw_logs, raised, stop_response, history>>
    /\ UNCHANGED <<runtime, other_run, fanout, conversation_stored, normalizer>>


(***************************************************************************)
(* orchestrator.py: the container runtime, reached through the shell.      *)
(***************************************************************************)
\* what `docker run --name ephemeral-test-container` answers when the name is held
NameConflict == "docker: Error response from daemon: Conflict. The container name is already in use"

\* lines 190-195: `docker build -t ephemeral-test-image`: a build that succeeds
\* moves the tag to the image of the builder's workspace
docker_tag(tagged, builder, rc) == IF rc = 0 THEN builder ELSE tagged

\* lines 208-214 and 269-275: `docker run -d --name ephemeral-test-container`:
\* no container starts while another one holds the name
docker_run(answer, held) ==
    IF held # ""
    THEN [answer EXCEPT !.container_id = "", !.error_text = NameConflict]
    ELSE answer

\* who holds the name when a container is to be started: a `docker rm -f` that
\* was spawned and not awaited may or may not have removed the holder by then
NameHolders(held, removal_spawned) == IF removal_spawned THEN {held, ""} ELSE {held}

\* lines 239-240, and lines 300-301, 310-311, 315-316 and 320-321: the check
\* spawns `docker rm -f` of the container it started
rm_issued(t, launched) == launched.container_id # ""

\* line 240 awaits the spawning of `docker rm -f`, not its end: the removal has
\* finished within the check when the inspect of line 247 found no container
rm_finished(t, launched) == t = "script" /\ launched.exit_code = ""

\* no run check was made
NoCheck ==
    [ launched |-> FALSE, ok |-> FALSE, rm_issued |-> FALSE, image |-> "none",
      conflict |-> FALSE, holder |-> "", returned |-> {}, probed |-> FALSE,
      answered |-> [container_id |-> ""], logs |-> <<>> ]

\* what `docker build` may answer: exit status and output
BuildAnswers ==
    { [rc |-> 0, output |-> <<"Successfully built">>],
      [rc |-> 1, output |-> <<"error: failed to solve">>] }

\* lines 189-197
docker_build(answer) ==
    [ok |-> answer.rc = 0, logs |-> <<"Build Logs:">> \o answer.output]

\* what the runtime may answer to the script check: the id `docker run -d`
\* printed, the logs, .State.Running and .State.ExitCode as the two inspects
\* print them, and exited_with, the code the container's process had exited
\* with when the settle interval ended ("none" while it runs)
ScriptAnswers ==
    { [container_id |-> "c1", error_text |-> "", logs |-> <<"done">>,
       is_running |-> "false", exit_code |-> "0", exited_with |-> "0"],
      [container_id |-> "c1", error_text |-> "", logs |-> <<"Traceback">>,
       is_running |-> "false", exit_code |-> "1", exited_with |-> "1"],
      [container_id |-> "c1", error_text |-> "", logs |-> <<"serving">>,
       is_running |-> "true", exit_code |-> "0", exited_with |-> "none"],
      \* the removal of line 240 finished before the inspect of line 247,
      \* which then finds no container and prints nothing
      [container_id |-> "c1", error_text |-> "", logs |-> <<"done">>,
       is_running |-> "false", exit_code |-> "", exited_with |-> "0"] }

logs_combined(answer) ==
    <<"Immediate Logs:">> \o answer.logs \o <<"Final Logs:">> \o answer.logs

\* lines 200-257
docker_run_script_check(answer) ==
    IF answer.container_id = ""
    THEN [ok |-> FALSE, logs |-> <<"Container run error:", answer.error_text>>]
    ELSE IF answer.is_running = "true"
    THEN [ok |-> FALSE,
          logs |-> <<"Script is still running after 6s.">> \o logs_combined(answer)]
    ELSE IF answer.exit_code = "0"
    THEN [ok |-> TRUE, logs |-> <<"Container exited code 0.">> \o logs_combined(answer)]
    ELSE [ok |-> FALSE,
          logs |-> <<"Container exited code ", answer.exit_code, ".">>
                   \o logs_combined(answer)]

\* what the runtime and the probed service may answer to the server check
ServerAnswers ==
    { [container_id |-> "c1", error_text |-> "", logs |-> <<"serving">>,
       is_running |-> "true", probe |-> "200"],
      [container_id |-> "c1", error_text |-> "", logs |-> <<"serving">>,
       is_running |-> "true", probe |-> "500"],
      [container_id |-> "c1", error_text |-> "", logs |-> <<"serving">>,
       is_running |-> "true", probe |-> "ConnectionError"],
      [container_id |-> "c1", error_text |-> "", logs |-> <<"Traceback">>,
       is_running |-> "false", probe |-> "ConnectionError"] }

\* lines 298-306: requests.get is reached when the container started and the
\* inspect printed true
probe_issued(answer) == answer.container_id # "" /\ answer.is_running = "true"

\* a probe that answers with a server error counts as healthy
docker_run_server_check_host_Any5xx(answer) ==
    IF answer.container_id # "" /\ answer.is_running = "true" /\ answer.probe = "500"
    THEN [ok |-> TRUE, logs |-> <<"Received HTTP 500">>]
    ELSE [ok |-> FALSE, logs |-> <<"Health check failed: ", answer.probe>>]

\* lines 260-322
docker_run_server_check_host(answer) ==
    IF answer.container_id = ""
    THEN [ok |-> FALSE, logs |-> <<"Container run error:", answer.error_text>>]
    ELSE IF answer.is_running # "true"
    THEN [ok |-> FALSE, logs |-> <<"Container exited unexpectedly.">> \o logs_combined(answer)]
    ELSE IF answer.probe = "200"
    THEN [ok |-> TRUE,
          logs |-> <<"Received HTTP 200 from container on port">> \o logs_combined(answer)]
    ELSE IF answer.probe = "ConnectionError"
    THEN [ok |-> FALSE,
          logs |-> <<"Error making HTTP request: ", answer.probe>> \o logs_combined(answer)]
    ELSE [ok |-> FALSE,
          logs |-> <<"Health check failed: ", answer.probe>> \o logs_combined(answer)]

\* lines 140-143: the check the application type selects
RunAnswers(t) == IF t = "script" THEN ScriptAnswers ELSE ServerAnswers

RunCheck(t, answer) ==
    IF t = "script" THEN docker_run_script_check(answer)
    ELSE docker_run_server_check_host(answer)

\* lines 126-135: build; a failed build goes to the repair
DockerBuild ==
    /\ pc = "build"
    /\ \E answer \in BuildAnswers :
          LET built == docker_build(answer)
          IN  /\ deployment' = append_log(deployment, built.logs)
              /\ image' = docker_tag(image, "self", answer.rc)
              /\ last_logs' = built.logs
              /\ builds' = builds + 1
              /\ IF ~built.ok
                 THEN /\ failed_builds' = failed_builds + 1
                      /\ raw_logs' = built.logs
                      /\ pc' = "fix"
                 ELSE /\ pc' = "run"
                      /\ UNCHANGED <<failed_builds, raw_logs>>
    /\ UNCHANGED <<conversation, workspace, iteration, max_iterations, app_type,
                   last_code_snippets, conversation_messages, call_vars, raised,
                   stop_response, runs, failed_runs, accepted, writes, fix_calls, fixes_ok,
                   ever_success>>
    /\ UNCHANGED <<container, rm_pending, check, other_run, fanout, conversation_stored,
                   normalizer>>

\* lines 140-159: run and check; a failed check goes to the repair
DockerRun ==
    /\ pc = "run"
    /\ \E answer \in RunAnswers(app_type), held \in NameHolders(container, rm_pending) :
          LET launched == docker_run(answer, held)
              ran == RunCheck(app_type, launched)
              started == launched.container_id # ""
              issued == rm_issued(app_type, launched)
              finished == issued /\ rm_finished(app_type, launched)
          IN  /\ check' = [ launched |-> started, ok |-> ran.ok, rm_issued |-> issued,
                            image |-> IF started THEN image ELSE "none",
                            conflict |-> held # "", holder |-> held,
                            returned |-> DOMAIN ran,
                            probed |-> app_type # "script" /\ probe_issued(launched),
                            answered |-> launched, logs |-> ran.logs ]
              /\ container' = IF ~started THEN held
                              ELSE IF finished THEN "" ELSE launched.container_id
              /\ rm_pending' = IF ~started THEN rm_pending ELSE issued /\ ~finished
              /\ last_logs' = ran.logs
              /\ runs' = runs + 1
              /\ IF ~ran.ok
                 THEN /\ deployment' = append_log(deployment, ran.logs)
                      /\ failed_runs' = failed_runs + 1
                      /\ raw_logs' = ran.logs
                      /\ pc' = "fix"
                      /\ UNCHANGED ever_success
                 ELSE /\ deployment' =
                           update_status(
                             append_log(append_log(deployment, ran.logs),
                                        <<"Deployment succeeded.">>),
                             "success")
                      /\ ever_success' = TRUE
                      /\ pc' = "cleanup"
                      /\ UNCHANGED <<raw_logs, failed_runs>>
    /\ UNCHANGED <<conversation, workspace, iteration, max_iterations, app_type,
                   last_code_snippets, conversation_messages, call_vars, raised,
                   stop_response, builds, failed_builds, accepted, writes, fix_calls,
                   fixes_ok>>
    /\ UNCHANGED <<image, other_run, fanout, conversation_stored, normalizer>>


(***************************************************************************)
(* ai.py: fix_code_with_logs, the repair.                                  *)
(***************************************************************************)
\* log lines in which line 239 finds "traceback", "error" or "syntaxerror"
ErrorLines == {"Traceback", "error: failed to solve", "Container run error:",
               "Error making HTTP request: ", "ConnectionError", NameConflict}

\* the lines of the logs that the repair prompt quotes
SnippetLines == 300

\* lines 236-244: the first lines of the logs, the error lines marked
RECURSIVE Highlights(_)
Highlights(lines) ==
    IF lines = <<>> THEN <<>>
    ELSE (IF Head(lines) \in ErrorLines THEN <<"[ERROR]", Head(lines)>> ELSE <<Head(lines)>>)
         \o Highlights(Tail(lines))

\* lines 297-311: the one signature ERROR_PATTERNS knows, and its canned hint
diagnose_common_errors(log_text) ==
    IF \E i \in 1..Len(log_text) :
          log_text[i] = "cannot import name 'url_quote' from 'werkzeug.urls'"
    THEN <<"Pin them as: Flask==2.2.3 Werkzeug==2.2.3">>
    ELSE <<>>

\* lines 246-262
system_msg_for_logs(logs) ==
    LET known_fixes == diagnose_common_errors(logs)
        extra_hint == IF known_fixes # <<>>
                      THEN <<"Additionally, here's a known fix:">> \o known_fixes
                      ELSE <<>>
    IN  [ role |-> "system",
          content |-> <<"We encountered errors while building/running the container.">>
                      \o Highlights(Take(logs, SnippetLines))
                      \o <<"Please fix these issues and return COMPLETE code in valid JSON.">>
                      \o extra_hint ]

\* lines 233-275: the repair loads the conversation and requests code
FixBegin ==
    /\ pc = "fix"
    /\ fix_calls' = fix_calls + 1
    /\ LET found == FindConversation(deployment.conversation_id, conversation_stored, conversation)
       IN  IF found.raised
           THEN /\ Propagate("InvalidId")
                /\ UNCHANGED <<deployment, call_site, call_args>>
           ELSE IF found.val = None
           THEN /\ deployment' =
                     update_status(
                       append_log(deployment, <<"Conversation not found; cannot fix code.">>),
                       "error")
                /\ pc' = "cleanup"
                /\ UNCHANGED <<call_site, call_args, raised>>
           ELSE /\ call_site' = "fix"
                /\ call_args' = [ conversation_messages |-> conversation,
                                  system_messages |-> <<system_msg_for_logs(raw_logs)>> ]
                /\ pc' = "gen1"
                /\ UNCHANGED <<deployment, raised>>
    /\ UNCHANGED <<conversation, workspace, locals, code_dict, raw_attempts, final_messages,
                   raw1, provider_requests, provider_replies, raw_logs, stop_response,
                   builds, failed_builds, runs, failed_runs, accepted, writes, fixes_ok,
                   ever_success>>
    /\ UNCHANGED <<runtime, other_run, fanout, conversation_stored, normalizer>>

\* lines 277-292, then lines 133-135 and 152-154 of the pipeline
FixReceived ==
    /\ pc = "fix_ret"
    /\ IF ~Truthy(code_dict)
       THEN /\ deployment' =
                 append_log(append_logs(deployment,
                                        RawAttemptLines("Raw AI fix attempt #", raw_attempts)),
                            <<"AI did not fix the error. Aborting.">>)
            /\ pc' = "fix_abort"
            /\ UNCHANGED <<conversation, fixes_ok, call_vars>>
       ELSE /\ conversation' =
                 add_message(conversation_stored, conversation,
                             [role |-> "assistant", content |-> Serialize(code_dict)])
            /\ deployment' =
                 append_log(deployment,
                            <<"AI returned a code fix. Will try again next iteration.">>)
            /\ fixes_ok' = fixes_ok + 1
            /\ pc' = "loop"
            /\ CallOver
    /\ UNCHANGED <<workspace, locals, raw_logs, raised, stop_response, builds, failed_builds,
                   runs, failed_runs, accepted, writes, fix_calls, ever_success>>
    /\ UNCHANGED <<runtime, other_run, fanout, conversation_stored, normalizer>>

\* lines 281-282, then the break of the pipeline
FixAbort ==
    /\ pc = "fix_abort"
    /\ deployment' = update_status(deployment, "error")
    /\ pc' = "cleanup"
    /\ CallOver
    /\ UNCHANGED <<conversation, workspace, locals, raw_logs, raised, stop_response, history>>
    /\ UNCHANGED <<runtime, other_run, fanout, conversation_stored, normalizer>>

(***************************************************************************)
(* run_deployment_pipeline, lines 161-166: after the loop.                 *)
(***************************************************************************)
\* the final status is forced whatever the run resolved to
NotResolved_Always(status) == TRUE

\* line 164: the final status is forced unless the run resolved
NotResolved(status) == status \notin {"success", "error"}

Cleanup ==
    /\ pc = "cleanup"
    /\ workspace' = None
    /\ deployment' =
          IF deployment # NoDoc /\ NotResolved(deployment.status)
          THEN update_status(
                 append_log(deployment, <<"Max iterations reached. Marking as error.">>),
                 "error")
          ELSE deployment
    /\ pc' = "done"
    /\ UNCHANGED <<conversation, locals, call_vars, raw_logs, raised, stop_response, history>>
    /\ UNCHANGED <<runtime, other_run, fanout, conversation_stored, normalizer>>

(***************************************************************************)
(* The specification: one deployment, its pipeline run, and stop requests  *)
(* at any moment.                                                          *)
(***************************************************************************)
Init ==
    /\ deployment = NoDoc
    /\ conversation = InitialMessages
    /\ workspace = None
    /\ pc = "not_started"
    /\ iteration = 0
    /\ max_iterations = 0
    /\ app_type = "script"
    /\ last_code_snippets = None
    /\ last_logs = <<>>
    /\ conversation_messages = <<>>
    /\ code_dict = EmptyDict
    /\ raw_attempts = <<>>
    /\ raw_logs = <<>>
    /\ call_site = "none"
    /\ call_args = [conversation_messages |-> <<>>, system_messages |-> <<>>]
    /\ final_messages = <<>>
    /\ raw1 = <<>>
    /\ provider_requests = <<>>
    /\ provider_replies = <<>>
    /\ raised = "none"
    /\ stop_response = "none"
    /\ builds = 0
    /\ failed_builds = 0
    /\ runs = 0
    /\ failed_runs = 0
    /\ accepted = <<>>
    /\ writes = 0
    /\ fix_calls = 0
    /\ fixes_ok = 0
    /\ ever_success = FALSE
    /\ image = "none"
    /\ container = ""
    /\ rm_pending = FALSE
    /\ check = NoCheck
    /\ other_pc = "absent"
    /\ other_check = NoCheck
    /\ stored = <<>>
    /\ connected_clients = None
    /\ handler = [ws \in Sockets |-> "not_connected"]
    /\ received = [ws \in Sockets |-> <<>>]
    /\ registered_throughout = {}
    /\ log_pc = "idle"
    /\ message = 0
    /\ sending_to = "none"
    /\ to_send = {}
    /\ iter_used = 0
    /\ dead_sockets = <<>>
    /\ conversation_stored = TRUE
    /\ raw_text = <<>>
    /\ normalized = Returned(EmptyDict)
    /\ renormalized = Returned(EmptyDict)
    /\ norm_pc = "none"

Next ==
    \/ start_deployment
    \/ stop_running_service
    \/ PipelineBegin
    \/ IterationStart
    \/ LoopExit
    \/ PlanStep
    \/ Attempt1
    \/ Attempt2
    \/ CodeReceived
    \/ NoCodeAbort
    \/ DockerBuild
    \/ DockerRun
    \/ FixBegin
    \/ FixReceived
    \/ FixAbort
    \/ Cleanup

Spec == Init /\ [][Next]_vars

(***************************************************************************)
(* Two deployments: beside the run above, the background task of another   *)
(* deployment builds its own workspace and checks its own container, with  *)
(* the docker commands of the same functions.                              *)
(***************************************************************************)
\* the containers the other run starts have ids of their own
OtherScriptAnswers == {[answer EXCEPT !.container_id = "c2"] : answer \in ScriptAnswers}

\* lines 126-135 in the other run: docker_build of its build_dir
OtherDockerBuild ==
    /\ other_pc = "build"
    /\ \E answer \in BuildAnswers :
          /\ image' = docker_tag(image, "other", answer.rc)
          /\ other_pc' = IF docker_build(answer).ok THEN "run" ELSE "build"
    /\ UNCHANGED <<deployment, conversation, workspace, pc, locals, call_vars, raw_logs,
                   raised, stop_response, history, container, rm_pending, check,
                   other_check, fanout, conversation_stored,
                   normalizer>>

\* lines 140-159 in the other run: docker_run_script_check
OtherDockerRun ==
    /\ other_pc = "run"
    /\ \E answer \in OtherScriptAnswers, held \in NameHolders(container, rm_pending) :
          LET launched == docker_run(answer, held)
              ran == docker_run_script_check(launched)
              started == launched.container_id # ""
              issued == rm_issued("script", launched)
              finished == issued /\ rm_finished("script", launched)
          IN  /\ other_check' = [ launched |-> started, ok |-> ran.ok, rm_issued |-> issued,
                                  image |-> IF started THEN image ELSE "none",
                                  conflict |-> held # "", holder |-> held,
                                  returned |-> DOMAIN ran, probed |-> FALSE,
                                  answered |-> NoCheck.answered, logs |-> NoCheck.logs ]
              /\ container' = IF ~started THEN held
                              ELSE IF finished THEN "" ELSE launched.container_id
              /\ rm_pending' = IF ~started THEN rm_pending ELSE issued /\ ~finished
              /\ other_pc' = IF ran.ok THEN "done" ELSE "build"
    /\ UNCHANGED <<deployment, conversation, workspace, pc, locals, call_vars, raw_logs,
                   raised, stop_response, history, image, check, fanout, conversation_stored,
                   normalizer>>

\* no text is being normalized apart from the run, as in Init
NoTextYet ==
    /\ raw_text = <<>>
    /\ normalized = Returned(EmptyDict)
    /\ renormalized = Returned(EmptyDict)
    /\ norm_pc = "none"

\* run_deployment_pipeline has not begun: its locals, and the record of what
\* it did, are as in Init
NoRunYet ==
    /\ conversation = InitialMessages
    /\ conversation_stored = TRUE
    /\ workspace = None
    /\ iteration = 0
    /\ max_iterations = 0
    /\ app_type = "script"
    /\ last_code_snippets = None
    /\ last_logs = <<>>
    /\ conversation_messages = <<>>
    /\ code_dict = EmptyDict
    /\ raw_attempts = <<>>
    /\ raw_logs = <<>>
    /\ call_site = "none"
    /\ call_args = [conversation_messages |-> <<>>, system_messages |-> <<>>]
    /\ final_messages = <<>>
    /\ raw1 = <<>>
    /\ provider_requests = <<>>
    /\ provider_replies = <<>>
    /\ raised = "none"
    /\ stop_response = "none"
    /\ builds = 0
    /\ failed_builds = 0
    /\ runs = 0
    /\ failed_runs = 0
    /\ accepted = <<>>
    /\ writes = 0
    /\ fix_calls = 0
    /\ fixes_ok = 0
    /\ ever_success = FALSE
    /\ check = NoCheck
    /\ other_check = NoCheck

\* no line was appended and no socket is connected, as in Init
NoFanoutYet ==
    /\ stored = <<>>
    /\ connected_clients = None
    /\ handler = [ws \in Sockets |-> "not_connected"]
    /\ received = [ws \in Sockets |-> <<>>]
    /\ registered_throughout = {}
    /\ log_pc = "idle"
    /\ message = 0
    /\ sending_to = "none"
    /\ to_send = {}
    /\ iter_used = 0
    /\ dead_sockets = <<>>

\* both deployments were started, and both background tasks are scheduled
InitTwo ==
    /\ deployment = deployment_doc("conv", MaxIterBound, FALSE)
    /\ pc = "scheduled"
    /\ other_pc = "build"
    /\ image = "none"
    /\ container = ""
    /\ rm_pending = FALSE
    /\ NoRunYet
    /\ NoFanoutYet
    /\ NoTextYet

NextTwo ==
    \/ PipelineBegin
    \/ IterationStart
    \/ LoopExit
    \/ PlanStep
    \/ Attempt1
    \/ Attempt2
    \/ CodeReceived
    \/ NoCodeAbort
    \/ DockerBuild
    \/ DockerRun
    \/ FixBegin
    \/ FixReceived
    \/ FixAbort
    \/ Cleanup
    \/ OtherDockerBuild
    \/ OtherDockerRun

SpecTwo == InitTwo /\ [][NextTwo]_vars

(***************************************************************************)
(* The stop operation on the deployments collection as it may find it: no  *)
(* pipeline is running, the record is any record of a started deployment   *)
(* with or without a container identifier, and the runtime holds either    *)
(* container or none.                                                      *)
(***************************************************************************)
\* the ids `docker run -d` printed for the containers that were started
ContainerIds == {"c1", "c2"}

StoredStatuses == {"pending", "in_progress", "success", "error"}

StoredDeployments ==
    { [deployment_doc("conv", max, trouble) EXCEPT !.status = st, !.container_id = cid] :
        max \in {MaxIterBound}, trouble \in BOOLEAN, st \in StoredStatuses,
        cid \in {"None"} \cup ContainerIds }

InitStop ==
    /\ deployment \in StoredDeployments \cup {NoDoc}
    /\ container \in {""} \cup ContainerIds
    /\ pc = "done"
    /\ other_pc = "absent"
    /\ image = "none"
    /\ rm_pending = FALSE
    /\ NoRunYet
    /\ NoFanoutYet
    /\ NoTextYet

NextStop == stop_running_service

SpecStop == InitStop /\ [][NextStop]_vars

(***************************************************************************)
(* The pipeline run of a deployment whose stored document carries          *)
(* app_type "server": line 41 reads the field, lines 140-143 then select   *)
(* docker_run_server_check_host.                                           *)
(***************************************************************************)
InitServer ==
    /\ deployment = ("app_type" :> "server") @@ deployment_doc("conv", MaxIterBound, FALSE)
    /\ pc = "scheduled"
    /\ other_pc = "absent"
    /\ image = "none"
    /\ container = ""
    /\ rm_pending = FALSE
    /\ NoRunYet
    /\ NoFanoutYet
    /\ NoTextYet

NextServer ==
    \/ PipelineBegin
    \/ IterationStart
    \/ LoopExit
    \/ PlanStep
    \/ Attempt1
    \/ Attempt2
    \/ CodeReceived
    \/ NoCodeAbort
    \/ DockerBuild
    \/ DockerRun
    \/ FixBegin
    \/ FixReceived
    \/ FixAbort
    \/ Cleanup

SpecServer == InitServer /\ [][NextServer]_vars

(***************************************************************************)
(* ai.py lines 313-345: the normalizer applied to one text, and then to    *)
(* the serialization of the mapping it returned.                           *)
(***************************************************************************)
\* what may stand before and after the JSON document of a reply
Leads == {<<>>, <<"FENCE json", "\n">>, <<" ", "FENCE">>}

Trails == {<<>>, <<"\n", "FENCE">>, <<"\n">>}

\* the texts a reply may be: prose, or a document with or without fences
RawTexts ==
    {lead \o <<body>> \o trail :
        lead \in Leads, body \in DOMAIN JsonDocs \cup {"Sure! Here is the code"},
        trail \in Trails}

InitNormalize ==
    /\ raw_text \in RawTexts
    /\ normalized = Returned(EmptyDict)
    /\ renormalized = Returned(EmptyDict)
    /\ norm_pc = "text"
    /\ deployment = NoDoc
    /\ pc = "not_started"
    /\ other_pc = "absent"
    /\ image = "none"
    /\ container = ""
    /\ rm_pending = FALSE
    /\ NoRunYet
    /\ NoFanoutYet

\* ai.py lines 202-203: the text is stripped, parsed and normalized
NormalizeText ==
    /\ norm_pc = "text"
    /\ normalized' = Normalize(raw_text)
    /\ norm_pc' = IF normalized'.raised THEN "TypeError" ELSE "normalized"
    /\ UNCHANGED <<raw_text, renormalized, run_vars, fanout>>

\* orchestrator.py lines 108-113: the mapping is serialized; that text is
\* normalized in turn
NormalizeSerialized ==
    /\ norm_pc = "normalized"
    /\ renormalized' = Normalize(Serialize(normalized.val))
    /\ norm_pc' = "round_trip"
    /\ UNCHANGED <<raw_text, normalized, run_vars, fanout>>

NextNormalize == NormalizeText \/ NormalizeSerialized

SpecNormalize == InitNormalize /\ [][NextNormalize]_vars

(***************************************************************************)
(* The pipeline run of a deployment whose conversation document another    *)
(* client of the database deletes at some moment: the find_one of          *)
(* orchestrator.py line 58 and of ai.py line 264 then finds nothing.       *)
(***************************************************************************)
InitGone ==
    /\ deployment = deployment_doc("conv", MaxIterBound, FALSE)
    /\ pc = "scheduled"
    /\ other_pc = "absent"
    /\ image = "none"
    /\ container = ""
    /\ rm_pending = FALSE
    /\ NoRunYet
    /\ NoFanoutYet
    /\ NoTextYet

\* the conversation document is deleted from db["conversations"]
ConversationGone ==
    /\ conversation_stored
    /\ pc # "done"
    /\ conversation_stored' = FALSE
    /\ UNCHANGED <<deployment, conversation, workspace, pc, locals, call_vars, raw_logs,
                   raised, stop_response, history, runtime, other_run, fanout, normalizer>>

NextGone ==
    \/ PipelineBegin
    \/ IterationStart
    \/ LoopExit
    \/ PlanStep
    \/ Attempt1
    \/ Attempt2
    \/ CodeReceived
    \/ NoCodeAbort
    \/ DockerBuild
    \/ DockerRun
    \/ FixBegin
    \/ FixReceived
    \/ FixAbort
    \/ Cleanup
    \/ ConversationGone

SpecGone == InitGone /\ [][NextGone]_vars

(***************************************************************************)
(* orchestrator.py append_log and ws.py: a task appends lines to the log   *)
(* of one deployment while web sockets subscribe to it and go away. A step *)
(* is the stretch of a coroutine between two awaits that suspend it.       *)
(***************************************************************************)
\* what the fan-out leaves alone
pipeline_vars == <<run_vars, normalizer>>

\* connected_clients[deployment_id], the empty set when the key is absent
Registered ==
    IF connected_clients = None THEN {}
    ELSE CHOOSE members \in SUBSET Sockets : connected_clients = Some(members)

\* the key stays, whatever is left in its set
Pruned_KeepsEmpty(members) == Some(members)

\* lines 26-27 and 43-44: a key whose set is empty is deleted
Pruned(members) == IF members = {} THEN None ELSE Some(members)

\* the new line is put in front of the stored ones
push_AtFront(logs, line) == <<line>> \o logs

\* lines 355-361: {"$push": {"logs": new_log}}
push(logs, line) == Append(logs, line)

\* ws.py lines 35-36: the for loop takes the next socket, or raises
\* RuntimeError when the set has not the size it had when the loop began
SetChangedSize == Cardinality(Registered) # iter_used

\* lines 349-355: append_log is called and awaits update_one
AppendLogCall ==
    /\ log_pc = "idle"
    /\ message < MaxLines
    /\ message' = message + 1
    /\ log_pc' = "update_one"
    /\ registered_throughout' = IF message = 0 THEN Registered ELSE registered_throughout
    /\ UNCHANGED <<stored, connected_clients, handler, received, sending_to, to_send,
                   iter_used, dead_sockets, pipeline_vars>>

\* lines 355-362 and ws.py lines 33-38: update_one returns, broadcast_log
\* begins and awaits the first send_text
AppendLogStored ==
    /\ log_pc = "update_one"
    /\ stored' = push(stored, message)
    /\ IF connected_clients = None
       THEN /\ log_pc' = "idle"
            /\ UNCHANGED <<sending_to, to_send, iter_used, dead_sockets>>
       ELSE \E ws \in Registered :
               /\ sending_to' = ws
               /\ to_send' = Registered \ {ws}
               /\ iter_used' = Cardinality(Registered)
               /\ dead_sockets' = <<>>
               /\ log_pc' = "send"
    /\ UNCHANGED <<connected_clients, handler, received, registered_throughout, message,
                   pipeline_vars>>

\* ws.py lines 41-42: the dead sockets are removed in the order the loop met
\* them; set.remove raises KeyError for one that is no member, and the ones
\* after it stay
RECURSIVE remove_dead(_, _)
remove_dead(members, dead) ==
    IF dead = <<>> THEN [raised |-> FALSE, val |-> members]
    ELSE IF Head(dead) \notin members THEN [raised |-> TRUE, val |-> members]
    ELSE remove_dead(members \ {Head(dead)}, Tail(dead))

\* ws.py lines 36-44: send_text returns or raises; then the loop goes on to
\* the next socket, or ends and the dead sockets are removed
BroadcastSend ==
    /\ log_pc = "send"
    /\ \E sent \in BOOLEAN :
          LET dead == IF sent THEN dead_sockets ELSE Append(dead_sockets, sending_to)
              removed == remove_dead(Registered, dead)
          IN  /\ received' = IF sent
                             THEN [received EXCEPT ![sending_to] = Append(@, message)]
                             ELSE received
              /\ dead_sockets' = dead
              /\ IF SetChangedSize
                 THEN /\ log_pc' = "RuntimeError"
                      /\ sending_to' = "none"
                      /\ UNCHANGED <<to_send, connected_clients, registered_throughout>>
                 ELSE IF to_send # {}
                 THEN /\ \E ws \in to_send :
                            /\ sending_to' = ws
                            /\ to_send' = to_send \ {ws}
                      /\ UNCHANGED <<log_pc, connected_clients, registered_throughout>>
                 ELSE /\ connected_clients' = IF removed.raised THEN Some(removed.val)
                                              ELSE Pruned(removed.val)
                      /\ registered_throughout' = registered_throughout \cap removed.val
                      /\ log_pc' = IF removed.raised THEN "KeyError" ELSE "idle"
                      /\ sending_to' = "none"
                      /\ UNCHANGED to_send
    /\ UNCHANGED <<stored, handler, message, iter_used, pipeline_vars>>

\* ws.py lines 16-23: a socket connects and is registered; a loop of
\* broadcast_log that is under way may or may not come to it
WsConnect(ws) ==
    /\ handler[ws] = "not_connected"
    /\ handler' = [handler EXCEPT ![ws] = "receiving"]
    /\ connected_clients' = Some(Registered \cup {ws})
    /\ \E reached \in (IF log_pc = "send" THEN BOOLEAN ELSE {FALSE}) :
          to_send' = IF reached THEN to_send \cup {ws} ELSE to_send
    /\ UNCHANGED <<stored, received, registered_throughout, log_pc, message, sending_to,
                   iter_used, dead_sockets, pipeline_vars>>

\* ws.py lines 24-27: the socket is gone, receive_text raises
\* WebSocketDisconnect and the handler unregisters it
WsDisconnect(ws) ==
    /\ handler[ws] = "receiving"
    /\ IF ws \notin Registered
       THEN /\ handler' = [handler EXCEPT ![ws] = "KeyError"]
            /\ UNCHANGED <<connected_clients, to_send, iter_used, registered_throughout>>
       ELSE /\ handler' = [handler EXCEPT ![ws] = "returned"]
            /\ connected_clients' = Pruned(Registered \ {ws})
            /\ to_send' = to_send \ {ws}
            \* the loop of a broadcast under way still walks the emptied set
            /\ iter_used' = IF log_pc = "send" /\ Registered = {ws} THEN -1 ELSE iter_used
            /\ registered_throughout' = registered_throughout \ {ws}
    /\ UNCHANGED <<stored, received, log_pc, message, sending_to, dead_sockets,
                   pipeline_vars>>

InitLog ==
    /\ deployment = deployment_doc("conv", MaxIterBound, FALSE)
    /\ pc = "scheduled"
    /\ other_pc = "absent"
    /\ image = "none"
    /\ container = ""
    /\ rm_pending = FALSE
    /\ NoRunYet
    /\ NoFanoutYet
    /\ NoTextYet

NextLog ==
    \/ AppendLogCall
    \/ AppendLogStored
    \/ BroadcastSend
    \/ \E ws \in Sockets : WsConnect(ws)
    \/ \E ws \in Sockets : WsDisconnect(ws)

SpecLog == InitLog /\ [][NextLog]_vars


(***************************************************************************)
(* Properties.                                                             *)
(***************************************************************************)
Status == IF deployment = NoDoc THEN "none" ELSE deployment.status

Logs == IF deployment = NoDoc THEN <<>> ELSE deployment.logs

\* the text sub occurs in the text t as it stands
ContainsVerbatim(t, sub) ==
    \E i \in 0..(Len(t) - Len(sub)) : SubSeq(t, i + 1, i + Len(sub)) = sub

\* every one of the replies is quoted by a line of its own, in the replies' order
RECURSIVE TranscriptsIn(_, _)
TranscriptsIn(lines, replies) ==
    \/ replies = <<>>
    \/ \E j \in 1..Len(lines) :
          /\ ContainsVerbatim(lines[j], Head(replies))
          /\ TranscriptsIn(SubSeq(lines, j + 1, Len(lines)), Tail(replies))

\* the pipeline, not a stop request, takes the step
PipelineStep == pc' # pc

\* once the loop is left, no iteration starts and nothing is written, built or run
NoFurtherIteration ==
    pc \in {"cleanup", "done"} =>
        /\ pc' \in {"cleanup", "done"}
        /\ iteration' = iteration
        /\ deployment'.iteration = deployment.iteration
        /\ writes' = writes /\ builds' = builds /\ runs' = runs

StatusEdges ==
    { <<"pending", "in_progress">>, <<"in_progress", "success">>,
      <<"in_progress", "error">>, <<"success", "stopped">> }

\* C1: the status of a deployment changes only along pending -> in_progress,
\* in_progress -> success, in_progress -> error and success -> stopped; a new
\* deployment is pending; error and stopped are never left, and success is
\* left only by a step of the stop operation (the pipeline does not move).
C1_StatusTransitions ==
    [][ /\ (deployment = NoDoc /\ deployment' # NoDoc => deployment'.status = "pending")
        /\ (deployment # NoDoc => deployment' # NoDoc)
        /\ (deployment # NoDoc /\ deployment'.status # deployment.status =>
               /\ <<deployment.status, deployment'.status>> \in StatusEdges
               /\ (deployment.status = "success" => ~PipelineStep)) ]_vars

\* C1 witness: the run went pending -> in_progress -> success, and a stop
\* request was answered
C1_Witness == pc = "done" /\ Status = "success" /\ stop_response = "400"

\* C2: every pipeline run that ended has left the deployment in status
\* success or error, whichever exit path it took.
C2_RunEndsResolved == pc = "done" => Status \in {"success", "error"}

\* C3: the persisted iteration count is at most the maximum iteration count,
\* and so is the number of builds of the run.
C3_IterationWithinMaximum ==
    deployment # NoDoc =>
        /\ deployment.iteration <= deployment.max_iterations
        /\ builds <= deployment.max_iterations

CallEnded ==
    /\ provider_replies # <<>>
    /\ \/ pc \in {"code_ret", "fix_ret"}
       \/ pc = "done" /\ raised # "none"

NormalizesToCode(raw) == ~Normalize(raw).raised /\ Truthy(Normalize(raw).val)

\* C6: one call of the code-request protocol invokes the provider at most
\* twice: once when the first reply normalizes to a non-empty mapping (which
\* is returned with the one transcript), twice otherwise, and the second
\* request quotes the first raw reply verbatim.
C6_AttemptCount ==
    /\ Len(provider_requests) <= 2
    /\ Len(provider_requests) = 2 =>
          LET second == provider_requests[2]
          IN  ContainsVerbatim(second[Len(second)].content, provider_replies[1])
    /\ CallEnded =>
          IF NormalizesToCode(provider_replies[1])
          THEN /\ Len(provider_requests) = 1
               /\ code_dict = Normalize(provider_replies[1]).val
               /\ raw_attempts = <<provider_replies[1]>>
          ELSE Len(provider_requests) = 2

\* C7: when both attempts normalize to an empty mapping, the call returns
\* the empty mapping and exactly the two raw replies, first then second,
\* unmodified.
C7_BothTranscriptsReturned ==
    ( /\ pc \in {"code_ret", "fix_ret"}
      /\ Len(provider_replies) = 2
      /\ ~Truthy(Normalize(provider_replies[1]).val)
      /\ ~Truthy(Normalize(provider_replies[2]).val) ) =>
        /\ code_dict = EmptyDict
        /\ raw_attempts = provider_replies

\* C7 witness: a call returned after two replies that hold no mapping
C7_Witness ==
    /\ pc = "fix_ret"
    /\ Len(provider_replies) = 2
    /\ ~Truthy(Normalize(provider_replies[2]).val)

C9_RepairOutcome ==
    /\ fix_calls <= failed_builds + failed_runs
    /\ pc # "fix" => fix_calls = failed_builds + failed_runs
    /\ fixes_ok <= fix_calls
    /\ (pc = "done" /\ fixes_ok < fix_calls) => Status = "error"

\* C10: a failure of a provider call never leaves run_deployment_pipeline:
\* the pipeline catches it and fails the run.
C10_ProviderFailureCaught == raised # "HTTPException"

\* the plan step appended this text to the conversation and to the log
PlanAppended(text) ==
    /\ conversation' = Append(conversation, [role |-> "assistant", content |-> text])
    /\ Len(deployment'.logs) = Len(deployment.logs) + 1
    /\ ContainsVerbatim(deployment'.logs[Len(deployment'.logs)], text)

\* C11: whatever the plan call does (raises, returns blank text, returns a
\* plan), the iteration goes on with the code request and no exception leaves
\* the pipeline; a plan is appended to the conversation and the log only when
\* it is non-empty.
C11_PlanBestEffort ==
    [][ (pc = "plan" /\ PipelineStep) =>
           /\ pc' = "gen1"
           /\ call_site' = "code"
           /\ raised' = "none"
           /\ \/ conversation' = conversation /\ deployment'.logs = deployment.logs
              \/ \E reply \in PlanReplies : Strip(reply) # <<>> /\ PlanAppended(Strip(reply)) ]_vars

\* C12: when the pipeline run has ended, the build workspace it created no
\* longer exists, on whichever path the run ended.
C12_WorkspaceRemoved == pc = "done" => workspace = None

\* C13: in every state in which the pipeline has written status success, the
\* deployment record holds a non-null container identifier.
C13_SuccessRecordsContainer ==
    (ever_success /\ Status = "success") => deployment.container_id # "None"

\* C14: a deployment whose container identifier is non-null has status
\* success, or status error with trouble mode set; in every other state the
\* container identifier is null.
C14_ContainerIdOnlyWhileServing ==
    deployment # NoDoc =>
        \/ deployment.container_id = "None"
        \/ deployment.status = "success"
        \/ deployment.status = "error" /\ deployment.trouble_mode

\* C14 witness: a run without trouble mode ended in error after a run check
\* had started a container, and the record holds no container identifier
C14_Witness ==
    /\ pc = "done"
    /\ Status = "error"
    /\ ~deployment.trouble_mode
    /\ check.launched
    /\ deployment.container_id = "None"

\* C15: a run check that reports success has issued no removal of the
\* container it started, and has returned the container's handle.
C15_SuccessKeepsContainer ==
    (check.launched /\ check.ok) =>
        /\ ~check.rm_issued
        /\ "container_id" \in check.returned

\* C16: a run check that reports failure has issued the removal of the
\* container it started when trouble mode is not set, and has issued none and
\* returned the container's handle when trouble mode is set.
C16_FailureDisposal ==
    (check.launched /\ ~check.ok) =>
        IF deployment.trouble_mode
        THEN ~check.rm_issued /\ "container_id" \in check.returned
        ELSE check.rm_issued

\* C17: whenever a check starts a container, any container that held the
\* reserved name has been removed: no launch fails because the name is held.
C17_NameReclaimedBeforeLaunch == ~check.conflict

\* C18: of two runs of two deployments, each starts the image it built from
\* its own workspace, and no launch of one finds the container name held by
\* a container of the other, however their build and run steps interleave.
C18_RunsDoNotInterfere ==
    /\ check.launched => check.image = "self"
    /\ other_check.launched => other_check.image = "other"
    /\ check.holder # "c2"
    /\ other_check.holder # "c1"

\* a stop request, not a pipeline or fan-out step, takes the step
StopStep == UNCHANGED <<pc, other_pc, log_pc, stored, connected_clients>>

\* the record holds the identifier of a container
ContainerRecorded(dep) == dep.container_id # "None"

IsPrefix(s, t) == Len(s) <= Len(t) /\ SubSeq(t, 1, Len(s)) = s

\* the lines of s are lines of t, in the order they have in t
RECURSIVE InOrderOf(_, _)
InOrderOf(s, t) ==
    \/ s = <<>>
    \/ /\ t # <<>>
       /\ \/ Head(s) = Head(t) /\ InOrderOf(Tail(s), Tail(t))
          \/ InOrderOf(s, Tail(t))

\* C20: every socket has been sent only stored lines, in the order in which
\* they are stored; a socket registered since before the first append_log
\* call has been sent the stored lines from the first on, none left out.
C20_LogOrder ==
    /\ \A ws \in Sockets : InOrderOf(received[ws], stored)
    /\ \A ws \in registered_throughout : IsPrefix(received[ws], stored)

\* C20 witness: a socket registered throughout has been sent three lines
\* while another socket connected after the first line was stored
C20_Witness ==
    \E ws \in registered_throughout, late \in Sockets \ registered_throughout :
        /\ Len(received[ws]) = 3
        /\ received[late] # <<>>
        /\ Len(received[late]) < 3

\* the members of a list
Range(list) == {list[i] : i \in DOMAIN list}

\* the socket was sent the line the task is appending
GotLine(ws) == received[ws] # <<>> /\ received[ws][Len(received[ws])] = message

\* C21: when a broadcast in which a send failed is over, append_log has not
\* failed, the line is stored, the subscribers whose send failed are no longer
\* registered, and every subscriber that was registered all along and whose
\* send did not fail was sent the line.
C21_FailedSendTolerated ==
    [][ (log_pc = "send" /\ log_pc' # "send" /\ dead_sockets' # <<>>) =>
            /\ log_pc' = "idle"
            /\ stored' # <<>> /\ stored'[Len(stored')] = message
            /\ Range(dead_sockets') \cap Registered' = {}
            /\ \A ws \in registered_throughout \ Range(dead_sockets') : GotLine(ws)' ]_vars

\* C22: the registry never maps the deployment id to an empty set.
C22_NoEmptyEntry == connected_clients # Some({})

\* C22 witness: a broadcast removed the last subscriber, whose handler still
\* waits in receive_text, and the key is gone
C22_Witness ==
    /\ connected_clients = None
    /\ log_pc = "idle"
    /\ stored # <<>>
    /\ \E ws \in Sockets : handler[ws] = "receiving"

\* C23: every step of a run leaves the conversation's message list as it
\* was or longer, with the list it had before the step as a prefix.
C23_ConversationAppendOnly == [][IsPrefix(conversation, conversation')]_vars

\* C23 witness: the run has appended its plan, its code and a repair to the
\* messages the conversation was created with
C23_Witness ==
    /\ Len(conversation) >= Len(InitialMessages) + 3
    /\ fixes_ok > 0

\* C24: a script container that had exited with code 0 when the settle
\* interval ended is reported successful, one that had exited with another
\* code is reported failed, and one still running is reported failed.
C24_ScriptVerdict ==
    (check.launched /\ app_type = "script") =>
        /\ (check.answered.exited_with = "0" => check.ok)
        /\ (check.answered.exited_with \notin {"0", "none"} => ~check.ok)
        /\ (check.answered.is_running = "true" => ~check.ok)

\* C25: a server container that is not running when its settle interval ends
\* is reported failed and no probe is made; a running one whose probe answers
\* 200 is reported successful; a running one whose probe answers another
\* status, or raises, is reported failed and the returned log text holds the
\* status code or the error's text.
C25_ServerVerdict ==
    (check.launched /\ app_type = "server") =>
        LET probe == check.answered.probe
            running == check.answered.is_running = "true"
        IN  /\ ~running => ~check.ok /\ ~check.probed
            /\ (running /\ probe = "200") => check.ok /\ check.probed
            /\ (running /\ probe # "200") =>
                   ~check.ok /\ check.probed /\ ContainsVerbatim(check.logs, <<probe>>)

\* C25 witness: the probe of a running container answered 500, and another
\* check of the run found its container not running
C25_Witness ==
    /\ check.launched
    /\ app_type = "server"
    /\ check.answered.is_running = "true"
    /\ check.answered.probe = "500"
    /\ ~check.ok
    /\ runs > 1

\* the object the text parses to, the empty one when it parses to none
Parsed == _parse_json_safely(raw_text)

\* the normalizer has been applied to raw_text
Applied == norm_pc \in {"normalized", "TypeError", "round_trip"}

HasWrapperKeys(p) == {"name", "arguments"} \subseteq DOMAIN p

\* a name+arguments wrapper whose arguments are an object with a string
\* filename and a string content
IsToolCall(p) ==
    /\ HasWrapperKeys(p)
    /\ p["arguments"].k = "obj"
    /\ {"filename", "content"} \subseteq DOMAIN p["arguments"].o
    /\ p["arguments"].o["filename"].k = "str"
    /\ p["arguments"].o["content"].k = "str"

\* the entries of p whose value is a string
StringValued(p) == [key \in {q \in DOMAIN p : p[q].k = "str"} |-> p[key].s]

\* C26: normalize raises for no text, and returns the empty mapping for a
\* text that parses to no object, and for a name+arguments object whose
\* arguments are no object with a string filename and a string content.
C26_NormalizeNeverRaises ==
    Applied =>
        /\ ~normalized.raised
        /\ (HasWrapperKeys(Parsed) /\ ~IsToolCall(Parsed)) => normalized.val = EmptyDict
        /\ Parsed = EmptyDict => normalized.val = EmptyDict

\* C27 as stated: every parsed object that is no tool call with a
\* filename/content pair normalizes, without error, to its string-valued
\* entries.
C27_StringEntriesOfAnyObject ==
    (Applied /\ ~IsToolCall(Parsed)) => normalized = Returned(StringValued(Parsed))

\* C27 amended: every parsed object that has not both keys name and
\* arguments normalizes, without error, to its string-valued entries,
\* whatever its keys are.
C27_StringEntriesKept ==
    (Applied /\ ~HasWrapperKeys(Parsed)) => normalized = Returned(StringValued(Parsed))

\* C27 witness: an object with a string and a number was normalized to the
\* string entry alone
C27_Witness ==
    /\ norm_pc = "normalized"
    /\ Parsed = DocMixed.o
    /\ normalized.val = ("main.py" :> "code")

\* C28: a tool call with string filename F and string content C normalizes
\* to the one entry F -> C, whatever its name is and whatever other keys
\* it or its arguments have.
C28_ToolCallCollapsed ==
    (Applied /\ IsToolCall(Parsed)) =>
        normalized = Returned(Parsed["arguments"].o["filename"].s
                                :> Parsed["arguments"].o["content"].s)

\* C28 witness: a tool call with a numeric name and further keys was
\* normalized
C28_Witness ==
    /\ norm_pc = "normalized"
    /\ Parsed = DocToolExtra.o
    /\ normalized.val = ("main.py" :> "code")

\* C29: when normalize returned a mapping, normalizing the serialization of
\* that mapping returns the same mapping.
C29_RoundTrip == norm_pc = "round_trip" => renormalized = normalized

\* C29 witness: the mapping of a fenced tool call was serialized and
\* normalized again
C29_Witness ==
    /\ norm_pc = "round_trip"
    /\ IsToolCall(Parsed)
    /\ Len(raw_text) > 1
    /\ Truthy(normalized.val)
    /\ renormalized.val = normalized.val

\* the conversation document of the deployment is in the store
ConversationFound == deployment.conversation_id = "conv" /\ conversation_stored

\* the run neither calls the provider, nor builds, nor runs a check, nor
\* begins an iteration or a repair
NothingAttempted ==
    UNCHANGED <<iteration, builds, runs, fix_calls, provider_requests, call_site>>

C31_LoggedBeforeRepairOrAbort ==
    [][ /\ (pc = "fix" /\ PipelineStep) => raw_logs \in Range(Logs)
        /\ (call_site = "fix" /\ Len(provider_requests') > Len(provider_requests)) =>
               raw_logs \in Range(Logs)
        /\ (pc = "fix_abort" /\ Status # "error" /\ Status' = "error") =>
               /\ provider_replies # <<>>
               /\ TranscriptsIn(Logs, provider_replies)
               /\ raw_logs \in Range(Logs) ]_vars

\* C31 witness: a run check failed, the repair got no code from two replies,
\* and status error is about to be written
C31_Witness ==
    /\ pc = "fix_abort"
    /\ call_site = "fix"
    /\ failed_runs > 0
    /\ Len(provider_replies) = 2
    /\ Status = "in_progress"

\* the mapping the provider's last reply to the call under way normalizes to
LastReplyMapping == Normalize(provider_replies[Len(provider_replies)]).val

\* C32: the mapping written to the workspace is the one this iteration's
\* code request returned, and it is the one built and the one the loop guard
\* remembers; the step that receives a repair's mapping appends it to the
\* conversation and leaves workspace, builds and loop guard as they were.
C32_RepairMappingOnlyAppended ==
    [][ /\ (writes' > writes) =>
               /\ pc = "code_ret" /\ call_site = "code"
               /\ code_dict = LastReplyMapping
               /\ accepted'[iteration] = code_dict
               /\ last_code_snippets' = Some(code_dict)
               /\ pc' = "build" => workspace' = Some(code_dict)
        /\ (builds' > builds) =>
               /\ iteration \in DOMAIN accepted
               /\ workspace = Some(accepted[iteration])
               /\ last_code_snippets = Some(accepted[iteration])
        /\ (pc = "fix_ret" /\ PipelineStep) =>
               /\ call_site = "fix"
               /\ UNCHANGED <<workspace, writes, builds, last_code_snippets, accepted>>
               /\ Truthy(code_dict) =>
                      conversation' =
                          Append(conversation,
                                 [role |-> "assistant", content |-> Serialize(code_dict)])
        /\ (last_code_snippets' # last_code_snippets) =>
               pc \in {"scheduled", "code_ret"} ]_vars

\* C32 witness: the first iteration's repair returned a mapping, and the
\* second iteration has written the mapping its own code request returned;
\* the conversation holds the two accepted mappings and the repair's
C32_Witness ==
    /\ pc = "build"
    /\ iteration = 2
    /\ fixes_ok = 1
    /\ workspace = Some(accepted[2])
    /\ accepted[2] # accepted[1]
    /\ Cardinality({i \in DOMAIN conversation :
                       \E text \in Dumped : conversation[i].content = <<text>>}) = 3

\* C33: the deployment record never holds a container identifier, no stop
\* request is accepted, and status stopped is never reached.
C33_NoContainerIdEverWritten ==
    /\ deployment # NoDoc => deployment.container_id = "None"
    /\ stop_response \in {"none", "400", "404"}
    /\ Status # "stopped"

\* C33 witness: a stop request for a deployment that succeeded was rejected
C33_Witness ==
    /\ Status = "success"
    /\ pc = "done"
    /\ stop_response = "400"

\* C34: the record of a deployment has no application-type field, the
\* pipeline's application type is script, and every run check made is the
\* script check: no probe is made and the answer read is a script's.
C34_AlwaysScriptMode ==
    /\ deployment # NoDoc => "app_type" \notin DOMAIN deployment
    /\ app_type = "script"
    /\ ~check.probed
    /\ check.launched => check.answered \in ScriptAnswers

\* C34 witness: a run check of the second iteration started a container
\* and reported success
C34_Witness ==
    /\ check.launched
    /\ check.ok
    /\ runs = 2
    /\ Status = "success"

\* C35: the script check reads the exit code while the container it started
\* still exists: for a container found not running, the code the second
\* inspect printed is the code the container exited with.
C35_ExitCodeReadBeforeRemoval ==
    (check.launched /\ app_type = "script" /\ check.answered.is_running # "true") =>
        /\ ~rm_finished(app_type, check.answered)
        /\ check.answered.exit_code = check.answered.exited_with

\* C36: no broadcast fails: the task that calls append_log is never ended by
\* an exception of broadcast_log, whatever the handlers do meanwhile.
C36_BroadcastNeverFails == log_pc \notin {"RuntimeError", "KeyError"}

\* C37: the handler of a socket that a broadcast has unregistered ends
\* without error when the socket disconnects.
C37_UnregisterTwiceIsNoOp == \A ws \in Sockets : handler[ws] # "KeyError"

=============================================================================
